---- MODULE Spec2Model ----
(***************************************************************************)
(* Model of the multi-agent USMLE vignette platform:                       *)
(*   src/app.py            the Streamlit pages and the menu dispatch       *)
(*   src/authentication.py the session-state login / logout                *)
(*   src/db.py             the users and vignettes tables                  *)
(*   src/openai_utils.py   the AutoGen group chat and the extraction of    *)
(*                         the initial / final vignette and the JSON       *)
(* One Streamlit script run is one action, except the generation, whose    *)
(* group chat advances one run_chat iteration per action.                  *)
(***************************************************************************)
EXTENDS Integers, Sequences, FiniteSets, TLC

VARIABLES
    users,        \* db.py table users: set of [id, username, password_hash]
    userSeq,      \* AUTOINCREMENT counter of users
    vignettes,    \* db.py table vignettes: set of rows
    vigSeq,       \* AUTOINCREMENT counter of vignettes
    logged_in,    \* st.session_state["logged_in"]
    username,     \* st.session_state["username"]
    user_id,      \* st.session_state["user_id"]
    messages,     \* st.session_state.messages (the display buffer)
    chat,         \* groupchat.messages appended by the running run_chat call
    pc,           \* position of the running script
    topic,        \* show_generate_vignette_page: topic
    round,        \* run_chat: loop index i
    speaker,      \* run_chat: speaker
    message,      \* run_chat: message (content of the pending message)
    exc,          \* generate_usmle_vignette: the exception e caught, if any
    result,       \* the tuple generate_usmle_vignette returned
    shown,        \* rows rendered by show_user_vignettes_page in this run
    saveLog,      \* history: the save_vignette calls that committed, in order
    groupchat_messages, \* groupchat.messages: the module-level list, one per
                  \* process, that every run_chat call appends to
    resets_groupchat,   \* whether the installed autogen's initiate_chat
                  \* empties groupchat.messages (the version is not pinned)
    peer,         \* the second browser session of the process: its
                  \* st.session_state and the locals of its script run
    switches      \* how often the two sessions' script threads were switched

vars == <<users, userSeq, vignettes, vigSeq, logged_in, username, user_id,
          messages, chat, pc, topic, round, speaker, message, exc, result,
          shown, saveLog, groupchat_messages, resets_groupchat, peer,
          switches>>

dbVars == <<users, userSeq, vignettes, vigSeq, saveLog>>
sessionVars == <<logged_in, username, user_id>>
chatVars == <<messages, chat, topic, round, speaker, message, exc, result,
              groupchat_messages>>
processVars == <<resets_groupchat, peer, switches>>

----------------------------------------------------------------------------
(* Bounds of the model *)

\* generations that may be started (each ends in one save_vignette call)
MaxSaves == 3

\* switches between the script threads of the two browser sessions
MaxSwitches == 2

(* Program constants *)

\* groupchat max_round
max_round == 15

\* Python None in the integer column user_id (SQLite ids start at 1)
NoneId == 0

\* Python None where a string is expected
NoneStr == "<None>"

\* no exception caught
NoExc == "<no exception>"

NoResult == <<>>

(* Inputs *)

NameInputs == {"", "alice", "bob"}
SignupPasswords == {"", "p"}
LoginPasswords == {"", "p", "q"}
Topics == {"", "MS"}

\* the topic the second browser session asks for
PeerTopics == {"ALS"}

\* the ways a reasoning call raises: a timeout, a service error
Failures == {"Timeout", "ServiceError"}
FewFailures == {"Timeout"}

----------------------------------------------------------------------------
(* openai_utils.py: the agents *)

Roster ==
    <<"User_proxy", "Vignette-Maker", "Content-Checker", "Format-Checker",
      "Vignette-Labeler", "Show-Vignette">>

AgentNames == {Roster[k] : k \in 1..Len(Roster)}

\* the agents whose send() is overridden to call update_chat_display:
\* StreamlitUserProxyAgent and StreamlitAssistantAgent; the labeler is a
\* plain GPTAssistantAgent
Displayed(a) == a # "Vignette-Labeler"

\* the agents that answer through a reasoning call; User_proxy has no
\* llm_config and answers with its default auto reply
HasLLM(a) == a # "User_proxy"

\* what an agent may answer. A reasoning call: an empty completion, a
\* text, or the word on which the manager ends the chat. User_proxy: its
\* default auto reply, or the outcome of running a code block it found
Replies(a) ==
    IF a = "User_proxy" THEN {"", "exitcode: 0"}
    ELSE IF a \in {"Vignette-Maker", "Show-Vignette"}
         THEN {"", "v1", "v2", "TERMINATE"}
         ELSE {"ok", "TERMINATE"}

FewReplies(a) ==
    IF a = "User_proxy" THEN {""}
    ELSE IF a \in {"Vignette-Maker", "Show-Vignette"} THEN {"v1"} ELSE {"ok"}

Prompt(t) ==
    "Let's create a USMLE STEP 1 clinical vignette about " \o t
        \o ". Vignette-Maker, please begin by creating a vignette about this topic."

update_chat_display(buf, sender, msg) ==
    Append(buf, [sender |-> sender, content |-> msg])

\* agent.send(message, manager): the override records, the base class not
Send(buf, a, msg) ==
    IF Displayed(a) THEN update_chat_display(buf, a, msg) ELSE buf

IndexOf(a) == CHOOSE k \in 1..Len(Roster) : Roster[k] = a

\* a next_agent that steps over one roster member
next_agent_skipping(a) == Roster[((IndexOf(a) + 1) % Len(Roster)) + 1]

\* GroupChat.next_agent under round_robin: the roster member after `a`
next_agent(a) == Roster[(IndexOf(a) % Len(Roster)) + 1]

select_speaker(last) == next_agent(last)

\* a termination test that also ends the chat on a vignette text
is_termination_msg_on_vignette(content) == content \in {"TERMINATE", "v1", "v2"}

\* GroupChatManager's is_termination_msg default
is_termination_msg(content) == content = "TERMINATE"

----------------------------------------------------------------------------
(* json.dumps: the text as its sequence of tokens; a punctuation token and *)
(* a string literal are told apart by their kind                           *)

Punct(c) == [kind |-> "punct", text |-> c]
Str(s) == [kind |-> "string", text |-> s]

\* a dump that leaves the content out
DumpMessageSenderOnly(m) ==
    <<Punct("{"), Str("sender"), Punct(":"), Str(m.sender), Punct("}")>>

\* one dict of st.session_state.messages, its keys in insertion order
DumpMessage(m) ==
    <<Punct("{"), Str("sender"), Punct(":"), Str(m.sender), Punct(","),
      Str("content"), Punct(":"), Str(m.content), Punct("}")>>

RECURSIVE DumpItems(_)
DumpItems(buf) ==
    IF buf = <<>> THEN <<>>
    ELSE IF Len(buf) = 1 THEN DumpMessage(buf[1])
    ELSE DumpMessage(buf[1]) \o <<Punct(",")>> \o DumpItems(Tail(buf))

\* json.dumps(st.session_state.messages, indent=2)
Dumps(buf) == <<Punct("[")>> \o DumpItems(buf) \o <<Punct("]")>>

\* json.dumps({"error": str(e)})
DumpsError(e) == <<Punct("{"), Str("error"), Punct(":"), Str(e), Punct("}")>>

----------------------------------------------------------------------------
(* generate_usmle_vignette: "Process results" *)

\* Python truthiness of an optional string: None and "" are falsy
Falsy(x) == x = NoneStr \/ x = ""

\* the for loop over st.session_state.messages, from entry k on, carrying
\* initial_vignette and final_vignette
RECURSIVE ScanMessages(_, _, _, _)
ScanMessages(buf, k, initial, final) ==
    IF k > Len(buf) THEN <<initial, final>>
    ELSE IF buf[k].sender = "Vignette-Maker" /\ Falsy(initial)
         THEN ScanMessages(buf, k + 1, buf[k].content, final)
         ELSE IF buf[k].sender = "Show-Vignette"
              THEN ScanMessages(buf, k + 1, initial, buf[k].content)
              ELSE ScanMessages(buf, k + 1, initial, final)

NoInitial == "No initial vignette found."
NoFinal == "No final vignette found."

\* lines 209-237: the tuple returned when initiate_chat returned
ProcessResults(buf) ==
    LET found == ScanMessages(buf, 1, NoneStr, NoneStr)
        initial_vignette == IF Falsy(found[1]) THEN NoInitial ELSE found[1]
        final_vignette == IF Falsy(found[2]) THEN NoFinal ELSE found[2]
    IN  <<initial_vignette, final_vignette, Dumps(buf)>>

\* lines 239-241: the tuple returned by the except handler
ErrorResult(e) == <<e, "", DumpsError(e)>>

----------------------------------------------------------------------------
(* db.py *)

\* bcrypt.hash / bcrypt.verify
Hash(password) == <<"bcrypt", password>>
Verify(password, password_hash) == password_hash = Hash(password)

\* get_user: the row of that username, or none
get_user(name) == {u \in users : u.username = name}

\* rows in ascending id
RECURSIVE OrderByIdAsc(_)
OrderByIdAsc(rows) ==
    IF rows = {} THEN <<>>
    ELSE LET low == CHOOSE r \in rows : \A q \in rows : r.id <= q.id
         IN  <<low>> \o OrderByIdAsc(rows \ {low})

\* rows in descending id: ORDER BY id DESC
RECURSIVE OrderByIdDesc(_)
OrderByIdDesc(rows) ==
    IF rows = {} THEN <<>>
    ELSE LET top == CHOOSE r \in rows : \A q \in rows : q.id <= r.id
         IN  <<top>> \o OrderByIdDesc(rows \ {top})

\* the SELECT list of get_user_vignettes
Columns(r) == <<r.id, r.topic, r.initial_vignette, r.final_vignette, r.conversation>>

Project(rows) == [k \in 1..Len(rows) |-> Columns(rows[k])]

\* WHERE user_id=?
WhereUser(uid) == {r \in vignettes : r.user_id = uid}

get_user_vignettes(uid) == Project(OrderByIdDesc(WhereUser(uid)))

\* the row save_vignette inserts
NewRow(uid, t, res) ==
    [id |-> vigSeq + 1, user_id |-> uid, topic |-> t,
     initial_vignette |-> res[1], final_vignette |-> res[2],
     conversation |-> res[3]]

----------------------------------------------------------------------------
(* authentication.py *)

is_user_logged_in == logged_in

get_current_user == <<user_id, username>>

\* login_user: the session keys after a login attempt
login_user(name, password) ==
    LET user_data == get_user(name)
    IN  IF user_data = {}
        THEN UNCHANGED sessionVars
        ELSE LET row == CHOOSE u \in user_data : TRUE
             IN  IF Verify(password, row.password_hash)
                 THEN /\ logged_in' = TRUE
                      /\ username' = row.username
                      /\ user_id' = row.id
                 ELSE UNCHANGED sessionVars

logout_user ==
    /\ logged_in' = FALSE
    /\ username' = NoneStr
    /\ user_id' = NoneId

----------------------------------------------------------------------------
(* db.py: the writes *)

\* create_user: the INSERT fails on a username already there
create_user(name, password) ==
    IF get_user(name) # {}
    THEN UNCHANGED <<users, userSeq>>
    ELSE /\ users' = users \cup
                {[id |-> userSeq + 1, username |-> name,
                  password_hash |-> Hash(password)]}
         /\ userSeq' = userSeq + 1

\* save_vignette: user_id is NOT NULL, so None raises and nothing is stored
save_vignette(uid, t, res) ==
    IF uid = NoneId
    THEN UNCHANGED <<vignettes, vigSeq, saveLog>>
    ELSE /\ vignettes' = vignettes \cup {NewRow(uid, t, res)}
         /\ vigSeq' = vigSeq + 1
         /\ saveLog' = Append(saveLog, NewRow(uid, t, res))

----------------------------------------------------------------------------
(* Initial state: the tables created empty, the session keys set by main,  *)
(* the message buffer set at import                                        *)

NoChat ==
    /\ messages = <<>>
    /\ chat = <<>>
    /\ groupchat_messages = <<>>

\* what belongs to one browser session: its st.session_state and the locals
\* of its script run
SessionOf(li, un, uid, msgs, ch, p, t, r, sp, m, e, res, sh) ==
    [logged_in |-> li, username |-> un, user_id |-> uid, messages |-> msgs,
     chat |-> ch, pc |-> p, topic |-> t, round |-> r, speaker |-> sp,
     message |-> m, exc |-> e, result |-> res, shown |-> sh]

\* a browser session that has just connected
NewSession ==
    SessionOf(FALSE, NoneStr, NoneId, <<>>, <<>>, "idle", "", 0, "User_proxy",
              "", NoExc, NoResult, <<>>)

\* a browser session logged in and idle
IdleSession(name, uid) ==
    [NewSession EXCEPT !.logged_in = TRUE, !.username = name, !.user_id = uid]

\* the library either empties groupchat.messages in initiate_chat or not
OneProcess ==
    /\ resets_groupchat \in BOOLEAN
    /\ peer = NewSession
    /\ switches = 0

Init ==
    /\ users = {}
    /\ userSeq = 0
    /\ vignettes = {}
    /\ vigSeq = 0
    /\ logged_in = FALSE
    /\ username = NoneStr
    /\ user_id = NoneId
    /\ NoChat
    /\ pc = "idle"
    /\ topic = ""
    /\ round = 0
    /\ speaker = "User_proxy"
    /\ message = ""
    /\ exc = NoExc
    /\ result = NoResult
    /\ shown = <<>>
    /\ saveLog = <<>>
    /\ OneProcess

----------------------------------------------------------------------------
(* app.py: one script run per menu choice *)

\* choice == "Login", the button pressed
MainLogin(name, password) ==
    /\ pc = "idle"
    /\ login_user(name, password)
    /\ shown' = <<>>
    /\ UNCHANGED <<dbVars, chatVars, pc, processVars>>

\* choice == "Signup", the button pressed
MainSignup(name, password) ==
    /\ pc = "idle"
    /\ IF name = "" \/ password = ""
       THEN UNCHANGED <<users, userSeq>>
       ELSE create_user(name, password)
    /\ shown' = <<>>
    /\ UNCHANGED <<vignettes, vigSeq, saveLog, sessionVars, chatVars, pc,
                   processVars>>

\* choice == "Logout"
MainLogout ==
    /\ pc = "idle"
    /\ IF is_user_logged_in THEN logout_user ELSE UNCHANGED sessionVars
    /\ shown' = <<>>
    /\ UNCHANGED <<dbVars, chatVars, pc, processVars>>

\* show_user_vignettes_page
show_user_vignettes_page == shown' = get_user_vignettes(get_current_user[1])

\* choice == "My Vignettes"
MainMyVignettes ==
    /\ pc = "idle"
    /\ IF is_user_logged_in THEN show_user_vignettes_page ELSE shown' = <<>>
    /\ UNCHANGED <<dbVars, sessionVars, chatVars, pc, processVars>>

\* show_generate_vignette_page up to the call of initiate_chat: the buffer
\* is cleared, User_proxy sends the prompt to the manager, run_chat starts
\* with that message pending and User_proxy as the last speaker; the shared
\* groupchat.messages is emptied only where the library does it
show_generate_vignette_page(t) ==
    IF t = ""
    THEN UNCHANGED <<chatVars, pc>>
    ELSE /\ topic' = t
         /\ messages' = Send(<<>>, "User_proxy", Prompt(t))
         /\ chat' = <<>>
         /\ groupchat_messages' =
                IF resets_groupchat THEN <<>> ELSE groupchat_messages
         /\ round' = 0
         /\ speaker' = "User_proxy"
         /\ message' = Prompt(t)
         /\ exc' = NoExc
         /\ result' = NoResult
         /\ pc' = "chat"

\* a dispatch that shows the generation page without the login check
MainGenerateUnchecked(t) ==
    /\ pc = "idle"
    /\ vigSeq < MaxSaves
    /\ show_generate_vignette_page(t)
    /\ shown' = <<>>
    /\ UNCHANGED <<dbVars, sessionVars, processVars>>

\* choice == "Generate Vignette", the button pressed
MainGenerate(t) ==
    /\ pc = "idle"
    /\ vigSeq < MaxSaves
    /\ IF is_user_logged_in
       THEN show_generate_vignette_page(t)
       ELSE UNCHANGED <<chatVars, pc>>
    /\ shown' = <<>>
    /\ UNCHANGED <<dbVars, sessionVars, processVars>>

----------------------------------------------------------------------------
(* openai_utils.py: the group chat *)

\* a failure that is absorbed: an error message is sent in the agent's name
\* and the loop goes on
ReplyFailsAbsorbed(nxt, e) ==
    /\ speaker' = nxt
    /\ exc' = e
    /\ messages' = Send(messages, nxt, e)
    /\ message' = e
    /\ round' = round + 1
    /\ UNCHANGED pc

\* the selected speaker's reasoning call raises: the exception leaves
\* run_chat and initiate_chat and reaches the except clause
ReplyFails(nxt, e) ==
    /\ speaker' = nxt
    /\ exc' = e
    /\ pc' = "except"
    /\ UNCHANGED <<messages, message, round>>

\* the selected speaker replies and sends the reply to the manager
ReplySent(nxt, reply) ==
    /\ speaker' = nxt
    /\ messages' = Send(messages, nxt, reply)
    /\ message' = reply
    /\ round' = round + 1
    /\ UNCHANGED <<exc, pc>>

\* the loop is left: initiate_chat returns
ChatEnds ==
    /\ pc' = "process"
    /\ UNCHANGED <<messages, message, round, speaker, exc>>

\* one iteration of run_chat's for loop: the pending message is appended,
\* the loop breaks on a termination message or in the last round, else the
\* next speaker is selected and replies
RunChatRound(R, F) ==
    /\ pc = "chat"
    /\ chat' = Append(chat, [name |-> speaker, content |-> message])
    /\ groupchat_messages' =
           Append(groupchat_messages, [name |-> speaker, content |-> message])
    /\ IF is_termination_msg(message) \/ round = max_round - 1
       THEN ChatEnds
       ELSE LET nxt == select_speaker(speaker)
            IN  \/ \E reply \in R[nxt] : ReplySent(nxt, reply)
                \/ /\ HasLLM(nxt)
                   /\ \E e \in F[nxt] : ReplyFails(nxt, e)
    /\ UNCHANGED <<dbVars, sessionVars, topic, result, shown, processVars>>

\* lines 209-237
GenerateReturn ==
    /\ pc = "process"
    /\ result' = ProcessResults(messages)
    /\ pc' = "returned"
    /\ UNCHANGED <<dbVars, sessionVars, messages, chat, topic, round, speaker,
                   message, exc, shown, groupchat_messages, processVars>>

\* lines 239-241
GenerateExcept ==
    /\ pc = "except"
    /\ result' = ErrorResult(exc)
    /\ pc' = "returned"
    /\ UNCHANGED <<dbVars, sessionVars, messages, chat, topic, round, speaker,
                   message, exc, shown, groupchat_messages, processVars>>

\* app.py lines 90-103: the result is shown and saved; the script run ends
SaveResult ==
    /\ pc = "returned"
    /\ save_vignette(get_current_user[1], topic, result)
    /\ pc' = "idle"
    /\ topic' = ""
    /\ round' = 0
    /\ speaker' = "User_proxy"
    /\ message' = ""
    /\ exc' = NoExc
    /\ result' = NoResult
    /\ UNCHANGED <<users, userSeq, sessionVars, messages, chat, shown,
                   groupchat_messages, processVars>>

----------------------------------------------------------------------------
(* Specifications *)

AllReplies == [a \in AgentNames |-> Replies(a)]
OneReply == [a \in AgentNames |-> FewReplies(a)]

\* the failures a reasoning call of each agent may end in: any agent's call
\* any way, or the first assistant's call timing out
AnyFailure == [a \in AgentNames |-> Failures]
MakerFailure ==
    [a \in AgentNames |-> IF a = "Vignette-Maker" THEN FewFailures ELSE {}]

\* the application: every page, the agents' answers drawn from FewReplies
Next ==
    \/ \E name \in NameInputs, password \in LoginPasswords :
           MainLogin(name, password)
    \/ \E name \in NameInputs, password \in SignupPasswords :
           MainSignup(name, password)
    \/ MainLogout
    \/ MainMyVignettes
    \/ \E t \in Topics : MainGenerate(t)
    \/ RunChatRound(OneReply, MakerFailure)
    \/ GenerateReturn
    \/ GenerateExcept
    \/ SaveResult

Spec == Init /\ [][Next]_vars

\* one generation by a logged-in user, from the call of initiate_chat to
\* the end of the script run, the agents' answers drawn from Replies
InitChat ==
    /\ users = {[id |-> 1, username |-> "alice", password_hash |-> Hash("p")]}
    /\ userSeq = 1
    /\ vignettes = {}
    /\ vigSeq = 0
    /\ logged_in = TRUE
    /\ username = "alice"
    /\ user_id = 1
    /\ \E t \in Topics \ {""} :
          /\ topic = t
          /\ messages = Send(<<>>, "User_proxy", Prompt(t))
          /\ message = Prompt(t)
    /\ chat = <<>>
    /\ groupchat_messages = <<>>
    /\ pc = "chat"
    /\ round = 0
    /\ speaker = "User_proxy"
    /\ exc = NoExc
    /\ result = NoResult
    /\ shown = <<>>
    /\ saveLog = <<>>
    /\ OneProcess

NextChat ==
    \/ RunChatRound(AllReplies, AnyFailure)
    \/ GenerateReturn
    \/ GenerateExcept
    \/ SaveResult

SpecChat == InitChat /\ [][NextChat]_vars

\* the script thread of the other browser session is scheduled: the session
\* state and the locals change hands, the tables and the module-level
\* group chat stay where they are
Switch ==
    /\ switches < MaxSwitches
    /\ switches' = switches + 1
    /\ peer' = SessionOf(logged_in, username, user_id, messages, chat, pc,
                         topic, round, speaker, message, exc, result, shown)
    /\ logged_in' = peer.logged_in
    /\ username' = peer.username
    /\ user_id' = peer.user_id
    /\ messages' = peer.messages
    /\ chat' = peer.chat
    /\ pc' = peer.pc
    /\ topic' = peer.topic
    /\ round' = peer.round
    /\ speaker' = peer.speaker
    /\ message' = peer.message
    /\ exc' = peer.exc
    /\ result' = peer.result
    /\ shown' = peer.shown
    /\ UNCHANGED <<dbVars, groupchat_messages, resets_groupchat>>

\* a browser session whose generation has just called initiate_chat
StartedSession(name, uid, t) ==
    [IdleSession(name, uid) EXCEPT
        !.topic = t,
        !.messages = Send(<<>>, "User_proxy", Prompt(t)),
        !.message = Prompt(t),
        !.pc = "chat"]

\* two browser sessions of one process, alice's and bob's: each has called
\* initiate_chat and neither has run an iteration yet; the two script
\* threads are switched between iterations
InitTwo ==
    /\ users = {[id |-> 1, username |-> "alice", password_hash |-> Hash("p")],
                [id |-> 2, username |-> "bob", password_hash |-> Hash("p")]}
    /\ userSeq = 2
    /\ vignettes = {}
    /\ vigSeq = 0
    /\ logged_in = TRUE
    /\ username = "alice"
    /\ user_id = 1
    /\ \E t \in Topics \ {""} :
          /\ topic = t
          /\ messages = Send(<<>>, "User_proxy", Prompt(t))
          /\ message = Prompt(t)
    /\ \E t \in PeerTopics : peer = StartedSession("bob", 2, t)
    /\ chat = <<>>
    /\ groupchat_messages = <<>>
    /\ pc = "chat"
    /\ round = 0
    /\ speaker = "User_proxy"
    /\ exc = NoExc
    /\ result = NoResult
    /\ shown = <<>>
    /\ saveLog = <<>>
    /\ resets_groupchat \in BOOLEAN
    /\ switches = 0

NextTwo ==
    \/ RunChatRound(OneReply, MakerFailure)
    \/ GenerateReturn
    \/ GenerateExcept
    \/ SaveResult
    \/ Switch

SpecTwo == InitTwo /\ [][NextTwo]_vars

----------------------------------------------------------------------------
(* Reading the transcript, for the properties below *)

\* the messages of the running generation in turn order: chat holds them
\* once run_chat has appended the pending one
roundCount == round

Positions(name) == {k \in 1..Len(chat) : chat[k].name = name}

MinOf(S) == CHOOSE k \in S : \A j \in S : k <= j
MaxOf(S) == CHOOSE k \in S : \A j \in S : j <= k

\* generate_usmle_vignette returned through line 237
ReturnedNormally == pc = "returned" /\ exc = NoExc

\* generate_usmle_vignette returned through the except clause
ReturnedError == pc = "returned" /\ exc # NoExc

RoundLimitReached == Len(chat) = max_round

Reverse(s) == [k \in 1..Len(s) |-> s[Len(s) + 1 - k]]

\* the reading of a token text written by Dumps or DumpsError: an object
\* becomes the function from its keys to its values, a list the sequence
\* of its objects
RECURSIVE LoadPairs(_, _, _)
LoadPairs(toks, pos, acc) ==
    LET pairs == acc \cup {<<toks[pos].text, toks[pos + 2].text>>}
    IN  IF toks[pos + 3] = Punct(",")
        THEN LoadPairs(toks, pos + 4, pairs)
        ELSE [pairs |-> pairs, next |-> pos + 4]

ObjectOf(pairs) ==
    [key \in {p[1] : p \in pairs} |-> (CHOOSE p \in pairs : p[1] = key)[2]]

RECURSIVE LoadItems(_, _, _)
LoadItems(toks, pos, acc) ==
    IF toks[pos] = Punct("]") THEN acc
    ELSE IF toks[pos] = Punct(",") THEN LoadItems(toks, pos + 1, acc)
    ELSE LET got == LoadPairs(toks, pos + 1, {})
         IN  LoadItems(toks, got.next, Append(acc, ObjectOf(got.pairs)))

IsList(toks) == toks # <<>> /\ toks[1] = Punct("[")

Loads(toks) ==
    IF IsList(toks) THEN LoadItems(toks, 2, <<>>)
    ELSE ObjectOf(LoadPairs(toks, 2, {}).pairs)

----------------------------------------------------------------------------
(* C6: under round robin the k-th message of the group chat (the prompt    *)
(* being message 0) is spoken by roster[k mod |roster|], whatever the       *)
(* messages hold, so no roster member is skipped and, the roster having     *)
(* more than one agent, no agent speaks two consecutive turns.              *)
C6_RoundRobin ==
    /\ \A k \in 1..Len(chat) : chat[k].name = Roster[((k - 1) % Len(Roster)) + 1]
    /\ \A k \in 1..(Len(chat) - 1) : chat[k].name # chat[k + 1].name
    /\ pc = "chat" => speaker = Roster[(round % Len(Roster)) + 1]

\* the chat ran to the round limit: the roster was cycled more than twice
C6_Witness ==
    /\ Len(chat) = max_round
    /\ chat[7].name = "User_proxy"
    /\ chat[14].name = "Vignette-Maker"

----------------------------------------------------------------------------
(* C1: when generate_usmle_vignette returns normally, the final version   *)
(* is the content of the last Show-Vignette message, and the sentinel if    *)
(* there is no Show-Vignette message.                                       *)
C1_Original ==
    ReturnedNormally =>
        LET at == Positions("Show-Vignette")
        IN  result[2] = IF at = {} THEN NoFinal ELSE chat[MaxOf(at)].content

----------------------------------------------------------------------------
(* C2: when generate_usmle_vignette returns normally, the initial version  *)
(* is the content of the first Vignette-Maker message whatever it is, also  *)
(* when later Vignette-Maker messages exist, and the sentinel if there is   *)
(* no Vignette-Maker message.                                               *)
C2_Original ==
    ReturnedNormally =>
        LET at == Positions("Vignette-Maker")
        IN  result[1] = IF at = {} THEN NoInitial ELSE chat[MinOf(at)].content

----------------------------------------------------------------------------
(* C3 *)

\* a Presenter message that holds a vignette text
WellFormedPresenter(m) == m.name = "Show-Vignette" /\ m.content \in {"v1", "v2"}

----------------------------------------------------------------------------
(* C4 *)

----------------------------------------------------------------------------
(* C5: in every state of a generation the recorded transcript has          *)
(* roundCount + 1 messages, one per turn of any roster agent after the      *)
(* prompt, in turn order.                                                   *)
C5_Original ==
    pc # "idle" =>
        /\ Len(messages) = roundCount + 1
        /\ \A k \in 1..Len(chat) :
               /\ k <= Len(messages)
               /\ messages[k] = [sender |-> chat[k].name, content |-> chat[k].content]

----------------------------------------------------------------------------
(* C7: a generation takes at most max_round turns, a failed generation is  *)
(* not returned in the shape of an artifact (the tuple of initial version,  *)
(* final version and conversation), and no failed generation is stored as   *)
(* a vignette.                                                              *)
C7_Original ==
    /\ round <= max_round
    /\ ReturnedError => Len(result) # 3
    /\ \A r \in vignettes : IsList(r.conversation)

----------------------------------------------------------------------------
(* C9 *)

\* the recorded form of a message of the chat
Recorded(m) == [sender |-> m.name, content |-> m.content]

DisplayedTurns ==
    LET Shown(m) == Displayed(m.name)
        kept == SelectSeq(chat, Shown)
    IN  [k \in 1..Len(kept) |-> Recorded(kept[k])]

----------------------------------------------------------------------------
(* C8: a generation starts, and its result is saved, only while the        *)
(* session is logged in and the topic is not empty; the row is stored       *)
(* under the id of the user logged in at that time, who is a row of users.  *)
C8_StartGuard ==
    (pc = "idle" /\ pc' = "chat") =>
        /\ logged_in
        /\ user_id # NoneId
        /\ topic' # ""

C8_SaveGuard ==
    (pc = "returned" /\ pc' = "idle") =>
        /\ logged_in
        /\ topic # ""
        /\ \E r \in vignettes' \ vignettes :
               /\ vignettes' = vignettes \cup {r}
               /\ r.user_id = user_id
               /\ r.user_id # NoneId
               /\ r.topic = topic
               /\ \E u \in users : u.id = r.user_id /\ u.username = username

C8_SessionKeys ==
    /\ logged_in <=> user_id # NoneId
    /\ logged_in <=> username # NoneStr
    /\ pc # "idle" => logged_in

C8_AuthenticatedGeneration ==
    /\ []C8_SessionKeys
    /\ [][C8_StartGuard /\ C8_SaveGuard]_vars

\* both users have saved, the first one after the second one logged out
C8_Witness ==
    /\ Len(saveLog) = 3
    /\ saveLog[1].user_id = 1
    /\ saveLog[2].user_id = 2
    /\ saveLog[3].user_id = 1
    /\ ~logged_in

----------------------------------------------------------------------------
(* C10: after any saves by any owners, the listing of an owner is the rows *)
(* saved under that owner id, each once, the most recently saved first,     *)
(* and no row of another owner.                                             *)
SavedBy(uid) ==
    LET Mine(r) == r.user_id = uid
    IN  Reverse(SelectSeq(saveLog, Mine))

C10_ListByOwner ==
    /\ \A uid \in 0..(userSeq + 1) :
           get_user_vignettes(uid) = [k \in 1..Len(SavedBy(uid)) |-> Columns(SavedBy(uid)[k])]
    /\ shown # <<>> => shown = get_user_vignettes(user_id)

\* the page lists the two rows of a user, another owner's row in between
C10_Witness ==
    /\ Len(saveLog) = 3
    /\ saveLog[2].user_id # user_id
    /\ Len(shown) = 2
    /\ shown[1][1] = 3
    /\ shown[2][1] = 1

----------------------------------------------------------------------------
(* C11: two generations, interleaved or one after the other, share no      *)
(* mutable state: the turn loop of each starts from an empty conversation   *)
(* history and a round count of zero, and while it runs the history it      *)
(* works on holds the messages of its own generation and no others, for the *)
(* session that is scheduled and for the one that is waiting alike.         *)
InLoop(p) == p = "chat"

C11_Original ==
    /\ InLoop(pc) =>
           /\ groupchat_messages = chat
           /\ chat = <<>> => round = 0
    /\ InLoop(peer.pc) =>
           /\ groupchat_messages = peer.chat
           /\ peer.chat = <<>> => peer.round = 0

====
